---- MODULE Spec2Model ----
(***************************************************************************)
(* AddressService (src/src/address/address.service.ts): create, get,       *)
(* update, remove and list of address rows nested under contacts.  Every   *)
(* request runs as its own async call; each `await` on the store is a      *)
(* point where other requests may run.                                     *)
(***************************************************************************)
EXTENDS Integers, Sequences, FiniteSets, TLC

\* ---------------------------------------------------------------- bounds
NProcs == 2          \* requests that may be in flight at once
MaxRequests == 3     \* requests started in one behaviour
MaxId == 2           \* ids the store hands out in one behaviour
MaxStrLen == 255     \* length bound of the textual fields

Procs == 1..NProcs

\* ---------------------------------------------------------------- inputs
Users == {"test"}
ContactIds == 1..3
\* an id the store has not handed out yet is the id of no row
AddressIds == 1..MaxId
Fields == {"street", "city", "province", "country", "postal_code"}

PA == [street |-> "street test", city |-> "city test",
       province |-> "province test", country |-> "country test",
       postal_code |-> "1111"]
PB == [street |-> "street updated", city |-> "city updated",
       province |-> "province updated", country |-> "country updated",
       postal_code |-> "2222"]
ValidPayloads == {PA, PB}
\* one payload per field, with that field empty
EmptyFieldPayloads == {[PA EXCEPT ![f] = ""] : f \in Fields}

CreateRequests ==
    {[contact_id |-> c] @@ f : c \in ContactIds, f \in ValidPayloads}
    \cup {[contact_id |-> 1] @@ f : f \in EmptyFieldPayloads}
UpdateRequests ==
    {[contact_id |-> c, id |-> a] @@ f :
        c \in ContactIds, a \in AddressIds, f \in ValidPayloads}
    \cup {[contact_id |-> 1, id |-> 1] @@ f : f \in EmptyFieldPayloads}
GetRequests ==
    {[contact_id |-> c, address_id |-> a] : c \in ContactIds, a \in AddressIds}

NoRow == [id |-> 0]
NoResult == [kind |-> "none"]
NoRequest == [contact_id |-> 0]

\* the five textual fields of a row, a request or a response
FieldsOf(r) == [f \in Fields |-> r[f]]

VARIABLES
    store,      \* the address table: a set of rows
    nextId,     \* the table's auto-increment counter
    pc,         \* position of each request
    op,         \* operation each request runs
    user,       \* caller of each request
    req,        \* request object of each request
    address,    \* the local `address` of get/update/remove
    result,     \* what the request ended in
    trace,      \* checks passed and writes issued by the request, in order
    started,    \* requests started so far
    removed,    \* <<contact_id, id>> of every successful remove
    deleted,    \* per id, the number of delete statements that deleted it
    lastWrite   \* per id, the payload of the last successful update write

vars == <<store, nextId, pc, op, user, req, address, result, trace, started,
          removed, deleted, lastWrite>>

\* ------------------------------------------------------- collaborators
\* contacts known to the contact service and their owners
ContactOwner == [c \in 1..3 |-> IF c = 3 THEN "other" ELSE "test"]

checkContactMustExists(username, contactId) ==
    /\ contactId \in DOMAIN ContactOwner
    /\ ContactOwner[contactId] = username

ValidText(s) == Len(s) >= 1 /\ Len(s) <= MaxStrLen

\* AddressValidation.CREATE
ValidCreate(r) == r.contact_id >= 1 /\ \A f \in Fields : ValidText(r[f])
\* AddressValidation.UPDATE
ValidUpdate(r) ==
    r.id >= 1 /\ r.contact_id >= 1 /\ \A f \in Fields : ValidText(r[f])
\* AddressValidation.GET / AddressValidation.REMOVE
ValidGet(r) == r.contact_id >= 1 /\ r.address_id >= 1

toAddressResponse(a) ==
    [id |-> a.id, street |-> a.street, city |-> a.city,
     province |-> a.province, country |-> a.country,
     postal_code |-> a.postal_code]

\* mutant: the lookup filters on the id alone
checkAddressMustExists_ByIdOnly(address_id, contactId) ==
    LET found == {a \in store : a.id = address_id}
    IN  IF found = {} THEN NoRow ELSE CHOOSE a \in found : TRUE

\* prisma.address.findFirst({where: {id, contact_id}}), NoRow for null
checkAddressMustExists(address_id, contactId) ==
    LET found == {a \in store : a.id = address_id /\ a.contact_id = contactId}
    IN  IF found = {} THEN NoRow ELSE CHOOSE a \in found : TRUE

\* --------------------------------------------------------- bookkeeping
Begin(p, o, u, r) ==
    /\ pc[p] = "idle"
    \* request slots are interchangeable: the lowest free one is taken first
    /\ \A q \in Procs : q < p => pc[q] # "idle"
    /\ started < MaxRequests
    /\ started' = started + 1
    /\ op' = [op EXCEPT ![p] = o]
    /\ user' = [user EXCEPT ![p] = u]
    /\ req' = [req EXCEPT ![p] = r]
    /\ address' = [address EXCEPT ![p] = NoRow]

Goto(p, label, steps) ==
    /\ pc' = [pc EXCEPT ![p] = label]
    /\ trace' = [trace EXCEPT ![p] = @ \o steps]
    /\ result' = [result EXCEPT ![p] = NoResult]

Finish(p, res, steps) ==
    /\ pc' = [pc EXCEPT ![p] = "done"]
    /\ trace' = [trace EXCEPT ![p] = @ \o steps]
    /\ result' = [result EXCEPT ![p] = res]

Throw(p, kind) == Finish(p, [kind |-> kind], <<>>)

Init ==
    /\ store = {}
    /\ nextId = 1
    /\ pc = [p \in Procs |-> "idle"]
    /\ op = [p \in Procs |-> "none"]
    /\ user = [p \in Procs |-> "test"]
    /\ req = [p \in Procs |-> NoRequest]
    /\ address = [p \in Procs |-> NoRow]
    /\ result = [p \in Procs |-> NoResult]
    /\ trace = [p \in Procs |-> <<>>]
    /\ started = 0
    /\ removed = {}
    /\ deleted = [i \in 1..MaxId |-> 0]
    /\ lastWrite = [i \in 1..MaxId |-> NoRow]

\* ---------------------------------------------------------------- create
CreatesInFlight == Cardinality({p \in Procs : pc[p] \in {"create_contact", "create_store"}})

CreateValidate(p, u, r) ==
    /\ nextId + CreatesInFlight <= MaxId
    /\ Begin(p, "create", u, r)
    /\ IF ValidCreate(r)
       THEN /\ pc' = [pc EXCEPT ![p] = "create_contact"]
            /\ trace' = [trace EXCEPT ![p] = <<"validated">>]
            /\ result' = [result EXCEPT ![p] = NoResult]
       ELSE /\ pc' = [pc EXCEPT ![p] = "done"]
            /\ trace' = [trace EXCEPT ![p] = <<>>]
            /\ result' = [result EXCEPT ![p] = [kind |-> "ValidationError"]]
    /\ UNCHANGED <<store, nextId, removed, deleted, lastWrite>>

CreateCheckContact(p) ==
    /\ pc[p] = "create_contact"
    /\ IF checkContactMustExists(user[p], req[p].contact_id)
       THEN Goto(p, "create_store", <<"contact_ok">>)
       ELSE Throw(p, "NotFoundError")
    /\ UNCHANGED <<store, nextId, op, user, req, address, started, removed,
                   deleted, lastWrite>>

\* mutant: the id counter is not advanced
CreateStore_NoIdBump(p) ==
    /\ pc[p] = "create_store"
    /\ LET row == [id |-> nextId, contact_id |-> req[p].contact_id,
                   street |-> req[p].street, city |-> req[p].city,
                   province |-> req[p].province, country |-> req[p].country,
                   postal_code |-> req[p].postal_code]
       IN  /\ store' = store \cup {row}
           /\ nextId' = nextId
           /\ Finish(p, [kind |-> "ok", data |-> toAddressResponse(row)],
                     <<"write">>)
    /\ UNCHANGED <<op, user, req, address, started, removed, deleted,
                   lastWrite>>

CreateStore(p) ==
    /\ pc[p] = "create_store"
    /\ LET row == [id |-> nextId, contact_id |-> req[p].contact_id,
                   street |-> req[p].street, city |-> req[p].city,
                   province |-> req[p].province, country |-> req[p].country,
                   postal_code |-> req[p].postal_code]
       IN  /\ store' = store \cup {row}
           /\ nextId' = nextId + 1
           /\ Finish(p, [kind |-> "ok", data |-> toAddressResponse(row)],
                     <<"write">>)
    /\ UNCHANGED <<op, user, req, address, started, removed, deleted,
                   lastWrite>>

\* ------------------------------------------------------------------- get
GetValidate(p, u, r) ==
    /\ Begin(p, "get", u, r)
    /\ IF ValidGet(r)
       THEN /\ pc' = [pc EXCEPT ![p] = "get_contact"]
            /\ trace' = [trace EXCEPT ![p] = <<"validated">>]
            /\ result' = [result EXCEPT ![p] = NoResult]
       ELSE /\ pc' = [pc EXCEPT ![p] = "done"]
            /\ trace' = [trace EXCEPT ![p] = <<>>]
            /\ result' = [result EXCEPT ![p] = [kind |-> "ValidationError"]]
    /\ UNCHANGED <<store, nextId, removed, deleted, lastWrite>>

\* mutant: get does not call the contact guard
GetCheckContact_Skipped(p) ==
    /\ pc[p] = "get_contact"
    /\ Goto(p, "get_address", <<"contact_ok">>)
    /\ UNCHANGED <<store, nextId, op, user, req, address, started, removed,
                   deleted, lastWrite>>

GetCheckContact(p) ==
    /\ pc[p] = "get_contact"
    /\ IF checkContactMustExists(user[p], req[p].contact_id)
       THEN Goto(p, "get_address", <<"contact_ok">>)
       ELSE Throw(p, "NotFoundError")
    /\ UNCHANGED <<store, nextId, op, user, req, address, started, removed,
                   deleted, lastWrite>>

GetCheckAddress(p) ==
    /\ pc[p] = "get_address"
    /\ LET a == checkAddressMustExists(req[p].address_id, req[p].contact_id)
       IN  IF a = NoRow
           THEN /\ Throw(p, "NotFoundError")
                /\ UNCHANGED address
           ELSE /\ address' = [address EXCEPT ![p] = a]
                /\ Finish(p, [kind |-> "ok", data |-> toAddressResponse(a)],
                          <<"address_ok">>)
    /\ UNCHANGED <<store, nextId, op, user, req, started, removed, deleted,
                   lastWrite>>

\* ---------------------------------------------------------------- update
\* mutant: update does not validate its request
UpdateValidate_NoValidation(p, u, r) ==
    /\ Begin(p, "update", u, r)
    /\ pc' = [pc EXCEPT ![p] = "update_contact"]
    /\ trace' = [trace EXCEPT ![p] = <<"validated">>]
    /\ result' = [result EXCEPT ![p] = NoResult]
    /\ UNCHANGED <<store, nextId, removed, deleted, lastWrite>>

UpdateValidate(p, u, r) ==
    /\ Begin(p, "update", u, r)
    /\ IF ValidUpdate(r)
       THEN /\ pc' = [pc EXCEPT ![p] = "update_contact"]
            /\ trace' = [trace EXCEPT ![p] = <<"validated">>]
            /\ result' = [result EXCEPT ![p] = NoResult]
       ELSE /\ pc' = [pc EXCEPT ![p] = "done"]
            /\ trace' = [trace EXCEPT ![p] = <<>>]
            /\ result' = [result EXCEPT ![p] = [kind |-> "ValidationError"]]
    /\ UNCHANGED <<store, nextId, removed, deleted, lastWrite>>

UpdateCheckContact(p) ==
    /\ pc[p] = "update_contact"
    /\ IF checkContactMustExists(user[p], req[p].contact_id)
       THEN Goto(p, "update_address", <<"contact_ok">>)
       ELSE Throw(p, "NotFoundError")
    /\ UNCHANGED <<store, nextId, op, user, req, address, started, removed,
                   deleted, lastWrite>>

\* mutant: the lookup's miss is not thrown
UpdateCheckAddress_Proceeds(p) ==
    /\ pc[p] = "update_address"
    /\ LET a == checkAddressMustExists(req[p].id, req[p].contact_id)
       IN  IF a = NoRow
           THEN /\ Goto(p, "update_store", <<>>)
                /\ UNCHANGED address
           ELSE /\ address' = [address EXCEPT ![p] = a]
                /\ Goto(p, "update_store", <<"address_ok">>)
    /\ UNCHANGED <<store, nextId, op, user, req, started, removed, deleted,
                   lastWrite>>

UpdateCheckAddress(p) ==
    /\ pc[p] = "update_address"
    /\ LET a == checkAddressMustExists(req[p].id, req[p].contact_id)
       IN  IF a = NoRow
           THEN /\ Throw(p, "NotFoundError")
                /\ UNCHANGED address
           ELSE /\ address' = [address EXCEPT ![p] = a]
                /\ Goto(p, "update_store", <<"address_ok">>)
    /\ UNCHANGED <<store, nextId, op, user, req, started, removed, deleted,
                   lastWrite>>

\* mutant: updateMany on the contact instead of update on the id
UpdateStore_WholeContact(p) ==
    /\ pc[p] = "update_store"
    /\ LET target == {a \in store : a.contact_id = req[p].contact_id}
           new(a) == [id |-> a.id, contact_id |-> a.contact_id,
                      street |-> req[p].street, city |-> req[p].city,
                      province |-> req[p].province,
                      country |-> req[p].country,
                      postal_code |-> req[p].postal_code]
       IN  IF target = {}
           THEN /\ Finish(p, [kind |-> "StoreError"], <<"write">>)
                /\ UNCHANGED <<store, lastWrite>>
           ELSE /\ store' = (store \ target) \cup {new(a) : a \in target}
                /\ lastWrite' = [i \in 1..MaxId |->
                      IF \E a \in target : a.id = i
                      THEN FieldsOf(req[p]) ELSE lastWrite[i]]
                /\ Finish(p, [kind |-> "ok",
                              data |-> [id |-> req[p].id] @@ FieldsOf(req[p])],
                          <<"write">>)
    /\ UNCHANGED <<nextId, op, user, req, address, started, removed, deleted>>

\* mutant: the write carries street and city only
UpdateStore_PartialData(p) ==
    /\ pc[p] = "update_store"
    /\ LET target == {a \in store : a.id = address[p].id}
       IN  IF target = {}
           THEN /\ Finish(p, [kind |-> "StoreError"], <<"write">>)
                /\ UNCHANGED <<store, lastWrite>>
           ELSE LET old == CHOOSE a \in target : TRUE
                    new == [old EXCEPT !.street = req[p].street,
                                       !.city = req[p].city]
                IN  /\ store' = (store \ {old}) \cup {new}
                    /\ lastWrite' = [lastWrite EXCEPT ![old.id] = FieldsOf(req[p])]
                    /\ Finish(p, [kind |-> "ok",
                                  data |-> toAddressResponse(new)],
                              <<"write">>)
    /\ UNCHANGED <<nextId, op, user, req, address, started, removed, deleted>>

\* prisma.address.update({where: {id: address.id}, data: updateRequest}):
\* one statement on the row with that id; it throws when the row is gone
UpdateStore(p) ==
    /\ pc[p] = "update_store"
    /\ LET target == {a \in store : a.id = address[p].id}
       IN  IF target = {}
           THEN /\ Finish(p, [kind |-> "StoreError"], <<"write">>)
                /\ UNCHANGED <<store, lastWrite>>
           ELSE LET old == CHOOSE a \in target : TRUE
                    new == [id |-> req[p].id,
                            contact_id |-> req[p].contact_id,
                            street |-> req[p].street, city |-> req[p].city,
                            province |-> req[p].province,
                            country |-> req[p].country,
                            postal_code |-> req[p].postal_code]
                IN  /\ store' = (store \ {old}) \cup {new}
                    /\ lastWrite' = [lastWrite EXCEPT ![old.id] = FieldsOf(req[p])]
                    /\ Finish(p, [kind |-> "ok",
                                  data |-> toAddressResponse(new)],
                              <<"write">>)
    /\ UNCHANGED <<nextId, op, user, req, address, started, removed, deleted>>

\* ---------------------------------------------------------------- remove
RemoveValidate(p, u, r) ==
    /\ Begin(p, "remove", u, r)
    /\ IF ValidGet(r)
       THEN /\ pc' = [pc EXCEPT ![p] = "remove_contact"]
            /\ trace' = [trace EXCEPT ![p] = <<"validated">>]
            /\ result' = [result EXCEPT ![p] = NoResult]
       ELSE /\ pc' = [pc EXCEPT ![p] = "done"]
            /\ trace' = [trace EXCEPT ![p] = <<>>]
            /\ result' = [result EXCEPT ![p] = [kind |-> "ValidationError"]]
    /\ UNCHANGED <<store, nextId, removed, deleted, lastWrite>>

RemoveCheckContact(p) ==
    /\ pc[p] = "remove_contact"
    /\ IF checkContactMustExists(user[p], req[p].contact_id)
       THEN Goto(p, "remove_address", <<"contact_ok">>)
       ELSE Throw(p, "NotFoundError")
    /\ UNCHANGED <<store, nextId, op, user, req, address, started, removed,
                   deleted, lastWrite>>

\* the found row is not kept: remove awaits the check and drops its value
RemoveCheckAddress(p) ==
    /\ pc[p] = "remove_address"
    /\ IF checkAddressMustExists(req[p].address_id, req[p].contact_id) = NoRow
       THEN Throw(p, "NotFoundError")
       ELSE Goto(p, "remove_store", <<"address_ok">>)
    /\ UNCHANGED <<store, nextId, op, user, req, address, started, removed,
                   deleted, lastWrite>>

\* mutant: the delete statement is not issued
RemoveStore_KeepsRow(p) ==
    /\ pc[p] = "remove_store"
    /\ LET target == {a \in store : a.id = req[p].address_id}
       IN  IF target = {}
           THEN /\ Finish(p, [kind |-> "StoreError"], <<"write">>)
                /\ UNCHANGED <<store, removed, deleted>>
           ELSE LET old == CHOOSE a \in target : TRUE
                IN  /\ store' = store
                    /\ removed' = removed \cup {<<old.contact_id, old.id>>}
                    /\ deleted' = [deleted EXCEPT ![old.id] = 1]
                    /\ Finish(p, [kind |-> "ok",
                                  data |-> toAddressResponse(old)],
                              <<"write">>)
    /\ UNCHANGED <<nextId, op, user, req, address, started, lastWrite>>

\* mutant: deleteMany, which answers also when no row is left to delete
RemoveStore_NoThrow(p) ==
    /\ pc[p] = "remove_store"
    /\ LET target == {a \in store : a.id = req[p].address_id}
       IN  /\ store' = store \ target
           /\ removed' = removed \cup {<<a.contact_id, a.id>> : a \in target}
           /\ deleted' = [i \in 1..MaxId |->
                 IF \E a \in target : a.id = i THEN deleted[i] + 1
                 ELSE deleted[i]]
           /\ Finish(p, [kind |-> "ok", data |-> [count |-> Cardinality(target)]],
                     <<"write">>)
    /\ UNCHANGED <<nextId, op, user, req, address, started, lastWrite>>

\* prisma.address.delete({where: {id: removeRequest.address_id}}): one
\* statement on the row with that id; it throws when the row is gone
RemoveStore(p) ==
    /\ pc[p] = "remove_store"
    /\ LET target == {a \in store : a.id = req[p].address_id}
       IN  IF target = {}
           THEN /\ Finish(p, [kind |-> "StoreError"], <<"write">>)
                /\ UNCHANGED <<store, removed, deleted>>
           ELSE LET old == CHOOSE a \in target : TRUE
                IN  /\ store' = store \ {old}
                    /\ removed' = removed \cup {<<old.contact_id, old.id>>}
                    /\ deleted' = [deleted EXCEPT ![old.id] = @ + 1]
                    /\ Finish(p, [kind |-> "ok",
                                  data |-> toAddressResponse(old)],
                              <<"write">>)
    /\ UNCHANGED <<nextId, op, user, req, address, started, lastWrite>>

\* ------------------------------------------------------------------ list
\* list takes the contact id as it is: no validation step
ListStart(p, u, contactId) ==
    /\ Begin(p, "list", u, [contact_id |-> contactId])
    /\ pc' = [pc EXCEPT ![p] = "list_contact"]
    /\ trace' = [trace EXCEPT ![p] = <<>>]
    /\ result' = [result EXCEPT ![p] = NoResult]
    /\ UNCHANGED <<store, nextId, removed, deleted, lastWrite>>

ListCheckContact(p) ==
    /\ pc[p] = "list_contact"
    /\ IF checkContactMustExists(user[p], req[p].contact_id)
       THEN Goto(p, "list_find", <<"contact_ok">>)
       ELSE Throw(p, "NotFoundError")
    /\ UNCHANGED <<store, nextId, op, user, req, address, started, removed,
                   deleted, lastWrite>>

\* mutant: findMany without the contact filter
ListFindMany_Unfiltered(p) ==
    /\ pc[p] = "list_find"
    /\ Finish(p, [kind |-> "ok",
                  data |-> {toAddressResponse(a) : a \in store}],
              <<"read">>)
    /\ UNCHANGED <<store, nextId, op, user, req, address, started, removed,
                   deleted, lastWrite>>

ListFindMany(p) ==
    /\ pc[p] = "list_find"
    /\ LET addresses == {a \in store : a.contact_id = req[p].contact_id}
       IN  Finish(p, [kind |-> "ok",
                      data |-> {toAddressResponse(a) : a \in addresses}],
                  <<"read">>)
    /\ UNCHANGED <<store, nextId, op, user, req, address, started, removed,
                   deleted, lastWrite>>

\* ---------------------------------------------------------------- return
\* the response has left: the request's locals are gone
Return(p) ==
    /\ pc[p] = "done"
    /\ pc' = [pc EXCEPT ![p] = "idle"]
    /\ op' = [op EXCEPT ![p] = "none"]
    /\ req' = [req EXCEPT ![p] = NoRequest]
    /\ address' = [address EXCEPT ![p] = NoRow]
    /\ result' = [result EXCEPT ![p] = NoResult]
    /\ trace' = [trace EXCEPT ![p] = <<>>]
    /\ UNCHANGED <<store, nextId, user, started, removed, deleted, lastWrite>>

Next ==
    \/ \E p \in Procs, u \in Users, r \in CreateRequests :
          CreateValidate(p, u, r)
    \/ \E p \in Procs : CreateCheckContact(p)
    \/ \E p \in Procs : CreateStore(p)
    \/ \E p \in Procs, u \in Users, r \in GetRequests : GetValidate(p, u, r)
    \/ \E p \in Procs : GetCheckContact(p)
    \/ \E p \in Procs : GetCheckAddress(p)
    \/ \E p \in Procs, u \in Users, r \in UpdateRequests :
          UpdateValidate(p, u, r)
    \/ \E p \in Procs : UpdateCheckContact(p)
    \/ \E p \in Procs : UpdateCheckAddress(p)
    \/ \E p \in Procs : UpdateStore(p)
    \/ \E p \in Procs, u \in Users, r \in GetRequests :
          RemoveValidate(p, u, r)
    \/ \E p \in Procs : RemoveCheckContact(p)
    \/ \E p \in Procs : RemoveCheckAddress(p)
    \/ \E p \in Procs : RemoveStore(p)
    \/ \E p \in Procs, u \in Users, c \in ContactIds : ListStart(p, u, c)
    \/ \E p \in Procs : ListCheckContact(p)
    \/ \E p \in Procs : ListFindMany(p)
    \/ \E p \in Procs : Return(p)

Spec == Init /\ [][Next]_vars

\* ================================================================ claims
Stepped(p) == pc'[p] # pc[p]
Ended(p) == pc[p] # "done" /\ pc'[p] = "done"
Owned(u, c) == c \in {1, 2, 3} /\ ((c = 3 /\ u = "other") \/ (c # 3 /\ u = "test"))
AddressIdOf(p) == IF op[p] = "update" THEN req[p].id ELSE req[p].address_id
HasEmptyField(r) == \E f \in Fields : r[f] = ""
Before(t, x, y) ==
    \E i, j \in 1..Len(t) : i < j /\ t[i] = x /\ t[j] = y

\* C1: a Create or an Update request with one of the five fields empty
\* ends in ValidationError, and the address store is the same after the
\* request as before it.
C1_EmptyFieldRejected ==
    [][\A p \in Procs :
        (pc[p] = "idle" /\ Stepped(p) /\ op'[p] \in {"create", "update"}
            /\ HasEmptyField(req'[p]))
        => /\ pc'[p] = "done"
           /\ result'[p] = [kind |-> "ValidationError"]
           /\ store' = store]_vars

\* an Update with an empty field was rejected while the row it names
\* exists under its contact, and a Create with an empty field was rejected
C1_Witness ==
    \E p, q \in Procs :
        /\ pc[p] = "done" /\ op[p] = "update" /\ HasEmptyField(req[p])
        /\ result[p].kind = "ValidationError"
        /\ \E a \in store : a.id = req[p].id /\ a.contact_id = req[p].contact_id
        /\ pc[q] = "done" /\ op[q] = "create" /\ HasEmptyField(req[q])
        /\ result[q].kind = "ValidationError"

\* C2: Get, Update and Remove whose contact is owned by the caller but
\* whose (address id, contact_id) pair matches no row end in NotFoundError
\* at the address lookup and leave the store as it was, also when the id
\* exists under another contact.
C2_ForeignAddressNotFound ==
    [][\A p \in Procs :
        (pc[p] \in {"get_address", "update_address", "remove_address"}
            /\ Stepped(p)
            /\ ~\E a \in store :
                  a.id = AddressIdOf(p) /\ a.contact_id = req[p].contact_id)
        => /\ pc'[p] = "done"
           /\ result'[p] = [kind |-> "NotFoundError"]
           /\ store' = store]_vars

\* a request ended in NotFoundError at the address lookup while a row with
\* the requested id stands under another contact
C2_Witness ==
    \E p \in Procs :
        /\ pc[p] = "done" /\ op[p] \in {"get", "update", "remove"}
        /\ result[p].kind = "NotFoundError"
        /\ trace[p] = <<"validated", "contact_ok">>
        /\ \E a \in store :
              a.id = AddressIdOf(p) /\ a.contact_id # req[p].contact_id

\* C3: Get, Update and Remove whose contact is not an existing contact of
\* the caller end in NotFoundError at the contact check, whatever the
\* address id, and leave the store as it was.
C3_ForeignContactNotFound ==
    [][\A p \in Procs :
        (pc[p] \in {"get_contact", "update_contact", "remove_contact"}
            /\ Stepped(p) /\ ~Owned(user[p], req[p].contact_id))
        => /\ pc'[p] = "done"
           /\ result'[p] = [kind |-> "NotFoundError"]
           /\ store' = store]_vars

\* a request on a contact of another user ended in NotFoundError although
\* the address id it names is the id of a stored row
C3_Witness ==
    \E p \in Procs :
        /\ pc[p] = "done" /\ op[p] \in {"get", "update", "remove"}
        /\ ~Owned(user[p], req[p].contact_id)
        /\ result[p].kind = "NotFoundError"
        /\ \E a \in store : a.id = AddressIdOf(p)

\* C4: a Create request with five non-empty fields under a contact of the
\* caller writes nothing before its last step, and its last step adds
\* exactly one row, linked to the request's contact_id and carrying the
\* request's five fields under an id no stored row has; the response echoes
\* the five fields and that id, and the earlier rows stay as they were.
C4_CreateAddsOneRow ==
    [][\A p \in Procs :
        (Stepped(p) /\ op'[p] = "create" /\ ~HasEmptyField(req'[p])
            /\ Owned(user'[p], req'[p].contact_id))
        => IF Ended(p)
           THEN /\ result'[p].kind = "ok"
                /\ FieldsOf(result'[p].data) = FieldsOf(req[p])
                /\ \A a \in store : a.id # result'[p].data.id
                /\ store \subseteq store'
                /\ Cardinality(store' \ store) = 1
                /\ \A a \in store' \ store :
                      /\ a.id = result'[p].data.id
                      /\ a.contact_id = req[p].contact_id
                      /\ FieldsOf(a) = FieldsOf(req[p])
           ELSE store' = store /\ pc'[p] # "idle"]_vars

\* a Create has answered with the row it added next to an earlier row
C4_Witness ==
    \E p \in Procs :
        /\ pc[p] = "done" /\ op[p] = "create" /\ result[p].kind = "ok"
        /\ \E a, b \in store :
              /\ a.id = result[p].data.id /\ a.contact_id = req[p].contact_id
              /\ b.id # a.id

\* C5: the step that ends an Update in success replaces the row with the
\* request's id and contact_id by a row with the same id, the same
\* contact_id and the request's five fields, answers with those values, and
\* leaves every other row as it was.
C5_UpdateOverwritesMatchedRow ==
    [][\A p \in Procs :
        (Ended(p) /\ op[p] = "update" /\ result'[p].kind = "ok")
        => \E old \in store :
              /\ old.id = req[p].id /\ old.contact_id = req[p].contact_id
              /\ store' = (store \ {old}) \cup
                    {[id |-> old.id, contact_id |-> old.contact_id] @@
                     FieldsOf(req[p])}
              /\ result'[p].data = [id |-> old.id] @@ FieldsOf(req[p])]_vars

\* an Update has succeeded on one of two stored rows
C5_Witness ==
    \E p \in Procs :
        /\ pc[p] = "done" /\ op[p] = "update" /\ result[p].kind = "ok"
        /\ \E a, b \in store :
              /\ a.id = req[p].id /\ FieldsOf(a) = FieldsOf(req[p])
              /\ b.id # a.id

C7_ChecksBeforeWrite ==
    [][\A p \in Procs : Stepped(p) =>
        /\ (store' # store \/ trace'[p] = Append(trace[p], "write"))
           => /\ trace'[p] = Append(trace[p], "write")
              /\ Before(trace'[p], "validated", "contact_ok")
              /\ Before(trace'[p], "contact_ok", "write")
              /\ (op[p] \in {"update", "remove"}
                    => /\ Before(trace'[p], "contact_ok", "address_ok")
                       /\ Before(trace'[p], "address_ok", "write"))
        /\ (Ended(p) /\ result'[p].kind = "ok"
                /\ op'[p] \in {"get", "update", "remove"})
           => /\ Before(trace'[p], "validated", "contact_ok")
              /\ Before(trace'[p], "contact_ok", "address_ok")
        /\ (Ended(p) /\ result'[p].kind \in {"ValidationError", "NotFoundError"})
           => /\ store' = store
              /\ \A i \in 1..Len(trace'[p]) : trace'[p][i] # "write"]_vars

\* one Update has written after both of its checks, and another Update or
\* Remove has ended in NotFoundError at the address lookup
C7_Witness ==
    \E p, q \in Procs :
        /\ pc[p] = "done" /\ op[p] = "update" /\ result[p].kind = "ok"
        /\ trace[p] = <<"validated", "contact_ok", "address_ok", "write">>
        /\ pc[q] = "done" /\ op[q] \in {"update", "remove"}
        /\ result[q].kind = "NotFoundError"
        /\ trace[q] = <<"validated", "contact_ok">>

\* C8: every stored row carries one complete request payload, never a mix
\* of two, and a row that Updates have written carries the payload of the
\* Update whose write came last.
C8_LastWriteWins ==
    \A a \in store :
        /\ FieldsOf(a) \in ValidPayloads
        /\ lastWrite[a.id] # NoRow => FieldsOf(a) = lastWrite[a.id]

\* two Updates of one address with different payloads both succeeded, the
\* second lookup running before the first write: q saw the created row,
\* then p wrote PA, then q wrote PB
C8_Witness ==
    \E p, q \in Procs :
        /\ p # q
        /\ pc[p] = "done" /\ op[p] = "update" /\ result[p].kind = "ok"
        /\ pc[q] = "done" /\ op[q] = "update" /\ result[q].kind = "ok"
        /\ req[p].id = req[q].id
        /\ FieldsOf(req[p]) = PA /\ FieldsOf(req[q]) = PB
        /\ FieldsOf(address[p]) = PB /\ FieldsOf(address[q]) = PB
        /\ \E a \in store : a.id = req[q].id /\ FieldsOf(a) = PB

\* C9: List for a contact of the caller answers with exactly the stored
\* rows of that contact, each as the six-field response; for any other
\* contact it ends in NotFoundError with no rows; no step of a List changes
\* the store.
C9_ListExactlyContactRows ==
    [][\A p \in Procs : (Stepped(p) /\ op'[p] = "list") =>
        /\ store' = store
        /\ Ended(p) =>
              IF Owned(user[p], req[p].contact_id)
              THEN /\ result'[p].kind = "ok"
                   /\ result'[p].data =
                         {[id |-> a.id] @@ FieldsOf(a) :
                             a \in {b \in store :
                                       b.contact_id = req[p].contact_id}}
              ELSE result'[p] = [kind |-> "NotFoundError"]]_vars

\* a List has answered with a row of its contact while the store also
\* holds a row of another contact
C9_Witness ==
    \E p \in Procs :
        /\ pc[p] = "done" /\ op[p] = "list" /\ result[p].kind = "ok"
        /\ result[p].data # {}
        /\ \E a \in store : a.contact_id # req[p].contact_id

\* C10: no id is deleted twice; of two Removes of the same address at most
\* one succeeds, and when both have passed the address lookup the row is
\* gone after both have ended, deleted once, with the other Remove ended in
\* a failure; a Remove step takes at most the row it names out of the store
\* and changes no row.
C10_Inv ==
    /\ \A i \in 1..MaxId : deleted[i] <= 1
    /\ \A p, q \in Procs :
        (/\ p # q
         /\ pc[p] = "done" /\ op[p] = "remove"
         /\ pc[q] = "done" /\ op[q] = "remove"
         /\ req[p] = req[q])
        => /\ ~(result[p].kind = "ok" /\ result[q].kind = "ok")
           /\ ("address_ok" \in {trace[p][i] : i \in 1..Len(trace[p])}
                /\ "address_ok" \in {trace[q][i] : i \in 1..Len(trace[q])})
              => /\ \A a \in store : a.id # req[p].address_id
                 /\ deleted[req[p].address_id] = 1
                 /\ \E r \in {p, q} :
                       result[r].kind \in {"StoreError", "NotFoundError"}

C10_Frame ==
    \A p \in Procs : (Stepped(p) /\ op'[p] = "remove") =>
        /\ store' \subseteq store
        /\ Cardinality(store \ store') <= 1
        /\ \A a \in store \ store' :
              a.id = req[p].address_id /\ a.contact_id = req[p].contact_id

C10_ConcurrentRemoveOnce == []C10_Inv /\ [][C10_Frame]_vars

\* two Removes of one address both passed the lookup; one deleted the row
\* and answered, the other failed in the store
C10_Witness ==
    \E p, q \in Procs :
        /\ pc[p] = "done" /\ op[p] = "remove" /\ result[p].kind = "ok"
        /\ pc[q] = "done" /\ op[q] = "remove"
        /\ result[q].kind = "StoreError"
        /\ req[p] = req[q]
====
